---- MODULE Spec2Model ----
(***************************************************************************)
(* A model of assets/fyrechat.js: the IRC message listener, the PRIVMSG    *)
(* parser, the emote segmenter, the badge cache with its asynchronous      *)
(* loader, and the rendering of a message into the stack.                  *)
(*                                                                         *)
(* Strings are sequences of one-character strings, so that indexOf, slice, *)
(* split, trim and replaceAll are computed as JavaScript computes them.    *)
(* Offsets are 0-based as in the source; sequences are 1-based.            *)
(***************************************************************************)
EXTENDS Integers, Sequences, FiniteSets, TLC

VARIABLES
    \* ---- the running widget
    cfg,            \* the merged configuration (badgeProxy, max, ttl, fade)
    badgeCache,     \* { global, channels, globalLoaded }
    calls,          \* the addMessage invocations, in invocation order
    microtasks,     \* promise continuations queued and not yet run (FIFO)
    stack,          \* $stack.children: the elements shown, oldest first
    faded,          \* the elements carrying the class "out"
    timers,         \* pending setTimeout callbacks, in registration order
    arrived,        \* history: the websocket frames received, in order
    requests,       \* history: the fetches issued, in order
    settled,        \* history: how each settled fetch ended
    \* ---- one evaluation of buildMessageHtmlParts
    text, emoteDefs, emotesTag, parts, segmented,
    \* ---- one evaluation of parseBadgesTag + buildBadgesFragment
    badgeItems, badgesTag, broadcasterId, badgeKeys, frag, resolved,
    \* ---- one evaluation of parseTags and of parsePrivmsg
    tagSegs, rawTags, lineShape, rawLine, tagMap, decoded, event, parsed

mainVars == <<cfg, calls, microtasks, stack, faded, timers, arrived, requests, settled>>
segVars  == <<text, emoteDefs, emotesTag, parts, segmented>>
resVars  == <<badgeItems, badgesTag, broadcasterId, badgeKeys, frag, resolved>>
msgVars  == <<tagSegs, rawTags, lineShape, rawLine, tagMap, decoded, event, parsed>>
vars     == <<mainVars, badgeCache, segVars, resVars, msgVars>>

-----------------------------------------------------------------------------
(* JavaScript strings *)

Min(S) == CHOOSE x \in S : \A y \in S : x <= y
Max(S) == CHOOSE x \in S : \A y \in S : x >= y

\* String.prototype.indexOf(pat): the first 0-based offset of pat, or -1
IndexOf(s, pat) ==
    LET hits == { j \in 0..(Len(s) - Len(pat)) : SubSeq(s, j + 1, j + Len(pat)) = pat }
    IN  IF hits = {} THEN -1 ELSE Min(hits)

Includes(s, pat) == IndexOf(s, pat) # -1

StartsWith(s, pat) == Len(pat) <= Len(s) /\ SubSeq(s, 1, Len(pat)) = pat

\* String.prototype.slice(a, b): negative offsets count from the end, both
\* are clamped to the string
Slice(s, a, b) ==
    LET n    == Len(s)
        from == IF a < 0 THEN Max({n + a, 0}) ELSE Min({a, n})
        to   == IF b < 0 THEN Max({n + b, 0}) ELSE Min({b, n})
    IN  IF from >= to THEN <<>> ELSE SubSeq(s, from + 1, to)

SliceFrom(s, a) == Slice(s, a, Len(s))

\* String.prototype.split(sep), sep not empty
RECURSIVE Split(_, _)
Split(s, sep) ==
    LET i == IndexOf(s, sep)
    IN  IF i = -1 THEN << s >>
        ELSE << SubSeq(s, 1, i) >> \o Split(SubSeq(s, i + Len(sep) + 1, Len(s)), sep)

\* Array.prototype.filter(Boolean) on an array of strings
FilterBoolean(a) == SelectSeq(a, LAMBDA x : x # <<>>)

\* String.prototype.trim, the white space of the model being the blank
RECURSIVE Trim(_)
Trim(s) ==
    IF s = <<>> THEN s
    ELSE IF Head(s) = " " THEN Trim(Tail(s))
    ELSE IF s[Len(s)] = " " THEN Trim(SubSeq(s, 1, Len(s) - 1))
    ELSE s

\* Array.prototype.join
RECURSIVE Join(_, _)
Join(a, sep) ==
    IF a = <<>> THEN <<>>
    ELSE IF Len(a) = 1 THEN a[1]
    ELSE a[1] \o sep \o Join(Tail(a), sep)

RECURSIVE Concat(_)
Concat(a) == IF a = <<>> THEN <<>> ELSE Head(a) \o Concat(Tail(a))

\* String.prototype.replaceAll(ch, rep) for a one-character pattern
RECURSIVE ReplaceAll(_, _, _)
ReplaceAll(s, ch, rep) ==
    IF s = <<>> THEN <<>>
    ELSE (IF Head(s) = ch THEN rep ELSE << Head(s) >>) \o ReplaceAll(Tail(s), ch, rep)

Digits == << "0", "1", "2", "3", "4", "5", "6", "7", "8", "9" >>

IsDigit(c) == \E d \in 1..10 : Digits[d] = c

DigitValue(c) == (CHOOSE d \in 1..10 : Digits[d] = c) - 1

\* the decimal numeral of a natural number (Number.prototype.toString)
RECURSIVE Numeral(_)
Numeral(n) ==
    IF n < 10 THEN << Digits[n + 1] >> ELSE Numeral(n \div 10) \o << Digits[(n % 10) + 1] >>

\* The value undefined: an array element that destructuring finds missing, a
\* property an object lacks, the result of Map.get for an absent key.  No
\* string equals it, the characters of a string being one character long.
Undefined == << "undefined" >>

\* !v for v undefined or a string
Falsy(v) == v = Undefined \/ v = <<>>

\* a || b
Or(a, b) == IF Falsy(a) THEN b ELSE a

\* A Map is a function from its keys to their values
EmptyMap == [k \in {} |-> Undefined]

MapHas(m, k) == k \in DOMAIN m

MapGet(m, k) == IF k \in DOMAIN m THEN m[k] ELSE Undefined

MapSet(m, k, v) == [x \in (DOMAIN m) \cup {k} |-> IF x = k THEN v ELSE m[x]]

\* A plain object ({}) is the Map of its own properties, the rest being
\* inherited from Object.prototype: obj[k] reads an own property, else
\* the accessor __proto__ (which answers Object.prototype), else an
\* inherited method, else undefined; obj[k] = v with v a string defines an
\* own property, but for k = "__proto__" it calls the accessor's setter,
\* which ignores a value that is neither an object nor null.
ProtoKey == << "_", "_", "p", "r", "o", "t", "o", "_", "_" >>

ObjectPrototype == << "Object.prototype" >>

InheritedMethods == { << "c", "o", "n", "s", "t", "r", "u", "c", "t", "o", "r" >>, << "t", "o", "S", "t", "r", "i", "n", "g" >>, << "v", "a", "l", "u", "e", "O", "f" >> }

InheritedMethod(k) == << "function" >> \o k

GetProperty(obj, k) ==
    IF MapHas(obj, k) THEN obj[k]
    ELSE IF k = ProtoKey THEN ObjectPrototype
    ELSE IF k \in InheritedMethods THEN InheritedMethod(k)
    ELSE Undefined

SetProperty(obj, k, v) == IF k = ProtoKey THEN obj ELSE MapSet(obj, k, v)

\* null, and a reference that is not null
Null == <<>>
Ref(m) == << m >>

\* Number.isFinite(Number(s)) for s undefined or a string of digits, blanks
\* and letters: undefined is NaN, white space is trimmed, the empty string
\* is 0, a string of digits is its decimal value, anything else is NaN.
\* (Signs, fractions, exponents and radix prefixes are outside the
\* characters of the model.)
NumberIsFinite(s) ==
    /\ s # Undefined
    /\ \A i \in 1..Len(Trim(s)) : IsDigit(Trim(s)[i])

RECURSIVE DecimalValue(_)
DecimalValue(s) ==
    IF s = <<>> THEN 0 ELSE 10 * DecimalValue(SubSeq(s, 1, Len(s) - 1)) + DigitValue(s[Len(s)])

Number(s) == DecimalValue(Trim(s))

-----------------------------------------------------------------------------
(* UTILITIES *)

\* escapeHtml in the order the source applies: & < > " '
escapeHtml(str) ==
    LET s1 == ReplaceAll(str, "&", << "&", "a", "m", "p", ";" >>)
        s2 == ReplaceAll(s1, "<", << "&", "l", "t", ";" >>)
        s3 == ReplaceAll(s2, ">", << "&", "g", "t", ";" >>)
        s4 == ReplaceAll(s3, "\"", << "&", "q", "u", "o", "t", ";" >>)
    IN  ReplaceAll(s4, "'", << "&", "#", "0", "3", "9", ";" >>)

-----------------------------------------------------------------------------
(* EMOTE RENDERING *)

\* One element of htmlParts.  An escaped literal is kind "text" with the
\* escaped characters in html and the offsets of the slice it was cut
\* from in from/to; an <img class="emote"> is kind "img" with the emote id
\* in html and the offsets r.start, r.end + 1 in from/to.
TextPart(txt, a, b) ==
    [kind |-> "text", html |-> escapeHtml(Slice(txt, a, b)),
     from |-> Min({a, Len(txt)}), to |-> Max({Min({a, Len(txt)}), Min({b, Len(txt)})})]

ImgPart(r) == [kind |-> "img", html |-> r.id, from |-> r.start, to |-> r.end + 1]

\* the ranges of one "id:loc,loc" definition, lines 211-218
RECURSIVE LocRanges(_, _)
LocRanges(id, locs) ==
    IF locs = <<>> THEN <<>>
    ELSE LET p        == Split(Head(locs), << "-" >>)
             startStr == p[1]
             endStr   == IF Len(p) >= 2 THEN p[2] ELSE Undefined
             here     == IF NumberIsFinite(startStr) /\ NumberIsFinite(endStr)
                         THEN << [start |-> Number(startStr), end |-> Number(endStr), id |-> id] >>
                         ELSE <<>>
         IN  here \o LocRanges(id, Tail(locs))

DefRanges(def) ==
    LET p    == Split(def, << ":" >>)
        id   == p[1]
        locs == IF Len(p) >= 2 THEN p[2] ELSE Undefined
    IN  IF id = <<>> \/ locs = Undefined \/ locs = <<>> THEN <<>>
        ELSE LocRanges(id, Split(locs, << "," >>))

\* lines 209-219
RECURSIVE ParseRanges(_)
ParseRanges(defs) ==
    IF defs = <<>> THEN <<>> ELSE DefRanges(Head(defs)) \o ParseRanges(Tail(defs))

\* ranges.sort((a,b) => a.start - b.start): a stable sort
RECURSIVE InsertByStart(_, _)
InsertByStart(sorted, r) ==
    IF sorted = <<>> THEN << r >>
    ELSE IF sorted[Len(sorted)].start <= r.start THEN Append(sorted, r)
    ELSE Append(InsertByStart(SubSeq(sorted, 1, Len(sorted) - 1), r), sorted[Len(sorted)])

RECURSIVE SortByStart(_)
SortByStart(rs) ==
    IF rs = <<>> THEN <<>>
    ELSE InsertByStart(SortByStart(SubSeq(rs, 1, Len(rs) - 1)), rs[Len(rs)])

\* the walk without the cursor moved past the range (line 230)
RECURSIVE WalkRanges_CursorNotAdvanced(_, _, _, _)
WalkRanges_CursorNotAdvanced(txt, rs, cursor, acc) ==
    IF rs = <<>>
    THEN IF cursor < Len(txt) THEN Append(acc, TextPart(txt, cursor, Len(txt))) ELSE acc
    ELSE LET r      == Head(rs)
             before == IF r.start > cursor THEN << TextPart(txt, cursor, r.start) >> ELSE <<>>
         IN  WalkRanges_CursorNotAdvanced(txt, Tail(rs), cursor, acc \o before \o << ImgPart(r) >>)

\* the walk of lines 224-234
RECURSIVE WalkRanges(_, _, _, _)
WalkRanges(txt, rs, cursor, acc) ==
    IF rs = <<>>
    THEN IF cursor < Len(txt) THEN Append(acc, TextPart(txt, cursor, Len(txt))) ELSE acc
    ELSE LET r      == Head(rs)
             before == IF r.start > cursor THEN << TextPart(txt, cursor, r.start) >> ELSE <<>>
         IN  WalkRanges(txt, Tail(rs), r.end + 1, acc \o before \o << ImgPart(r) >>)

\* buildMessageHtmlParts without the sort of line 222
buildMessageHtmlParts_Unsorted(txt, tag) ==
    IF tag = <<>> THEN << TextPart(txt, 0, Len(txt)) >>
    ELSE LET ranges == ParseRanges(FilterBoolean(Split(tag, << "/" >>)))
         IN  IF ranges = <<>> THEN << TextPart(txt, 0, Len(txt)) >>
             ELSE WalkRanges(txt, ranges, 0, <<>>)

buildMessageHtmlParts(txt, tag) ==
    IF tag = <<>> THEN << TextPart(txt, 0, Len(txt)) >>
    ELSE LET ranges == ParseRanges(FilterBoolean(Split(tag, << "/" >>)))
         IN  IF ranges = <<>> THEN << TextPart(txt, 0, Len(txt)) >>
             ELSE WalkRanges(txt, SortByStart(ranges), 0, <<>>)

-----------------------------------------------------------------------------
(* BADGES *)

\* A Helix badge document is [data |-> sets], a set is
\* [set_id, versions], a version is [id, image_url_2x, image_url_1x].
RECURSIVE SetVersions(_, _, _)
SetVersions(map, setId, versions) ==
    IF versions = <<>> THEN map
    ELSE LET v == Head(versions)
         IN  SetVersions(MapSet(map, setId \o << "/" >> \o v.id,
                                Or(v.image_url_2x, v.image_url_1x)),
                         setId, Tail(versions))

RECURSIVE SetSets(_, _)
SetSets(map, sets) ==
    IF sets = <<>> THEN map
    ELSE SetSets(SetVersions(map, Head(sets).set_id, Head(sets).versions), Tail(sets))

buildBadgeMap(helixJson) == SetSets(EmptyMap, helixJson.data)

RECURSIVE MapTrim(_)
MapTrim(a) == IF a = <<>> THEN <<>> ELSE << Trim(Head(a)) >> \o MapTrim(Tail(a))

parseBadgesTag(tag) ==
    IF tag = <<>> THEN <<>> ELSE FilterBoolean(MapTrim(Split(tag, << "," >>)))

\* the src of the <img class="badge"> elements appended, lines 289-298
RECURSIVE BadgeImgs(_, _, _)
BadgeImgs(keys, chanMap, globalMap) ==
    IF keys = <<>> THEN <<>>
    ELSE LET url == Or(MapGet(chanMap, Head(keys)), MapGet(globalMap, Head(keys)))
         IN  (IF Falsy(url) THEN <<>> ELSE << url >>)
             \o BadgeImgs(Tail(keys), chanMap, globalMap)

\* buildBadgesFragment with the channel table looked up under no room
buildBadgesFragment_NoChannel(keys, room) ==
    LET globalMap == IF badgeCache.global = Null THEN EmptyMap ELSE badgeCache.global[1]
    IN  BadgeImgs(keys, EmptyMap, globalMap)

buildBadgesFragment(keys, room) ==
    LET globalMap == IF badgeCache.global = Null THEN EmptyMap ELSE badgeCache.global[1]
        chanMap   == IF room # <<>> /\ MapHas(badgeCache.channels, room)
                     THEN badgeCache.channels[room] ELSE EmptyMap
    IN  BadgeImgs(keys, chanMap, globalMap)

-----------------------------------------------------------------------------
(* IRC PARSING *)

\* parseTags: the object out, its own properties the tag names
RECURSIVE SetTags(_, _)
SetTags(out, ps) ==
    IF ps = <<>> THEN out
    ELSE LET p  == Head(ps)
             eq == IndexOf(p, << "=" >>)
             k  == IF eq = -1 THEN p ELSE Slice(p, 0, eq)
             v  == IF eq = -1 THEN <<>> ELSE SliceFrom(p, eq + 1)
         IN  SetTags(SetProperty(out, k, v), Tail(ps))

parseTags(raw) == SetTags(EmptyMap, Split(raw, << ";" >>))

TagDisplayName == << "d", "i", "s", "p", "l", "a", "y", "-", "n", "a", "m", "e" >>
TagColor       == << "c", "o", "l", "o", "r" >>
TagEmotes      == << "e", "m", "o", "t", "e", "s" >>
TagBadges      == << "b", "a", "d", "g", "e", "s" >>
TagRoomId      == << "r", "o", "o", "m", "-", "i", "d" >>
Unknown        == << "U", "n", "k", "n", "o", "w", "n" >>
White          == << "#", "f", "f", "f", "f", "f", "f" >>

\* parsePrivmsg with the delimiter searched in the line as received, tags
\* included
parsePrivmsg_WholeLine(line) ==
    LET tagged   == StartsWith(line, << "@" >>)
        spaceIdx == IndexOf(line, << " " >>)
        tags     == IF tagged THEN parseTags(Slice(line, 1, spaceIdx)) ELSE EmptyMap
        msgIdx   == IndexOf(line, << " ", ":" >>)
        txt      == SliceFrom(line, msgIdx + 2)
    IN  IF msgIdx = -1 THEN Null
        ELSE Ref([name      |-> Or(GetProperty(tags, TagDisplayName), Unknown),
                  color     |-> Or(GetProperty(tags, TagColor), White),
                  htmlParts |-> buildMessageHtmlParts(txt, Or(GetProperty(tags, TagEmotes), <<>>)),
                  badges    |-> Or(GetProperty(tags, TagBadges), <<>>),
                  roomId    |-> Or(GetProperty(tags, TagRoomId), <<>>)])

\* parsePrivmsg with the tags cut from the start of the line, "@" included
parsePrivmsg_TagsFromAt(line) ==
    LET tagged   == StartsWith(line, << "@" >>)
        spaceIdx == IndexOf(line, << " " >>)
        tags     == IF tagged THEN parseTags(Slice(line, 0, spaceIdx)) ELSE EmptyMap
        rest     == IF tagged THEN SliceFrom(line, spaceIdx + 1) ELSE line
        msgIdx   == IndexOf(rest, << " ", ":" >>)
        txt      == SliceFrom(rest, msgIdx + 2)
    IN  IF msgIdx = -1 THEN Null
        ELSE Ref([name      |-> Or(GetProperty(tags, TagDisplayName), Unknown),
                  color     |-> Or(GetProperty(tags, TagColor), White),
                  htmlParts |-> buildMessageHtmlParts(txt, Or(GetProperty(tags, TagEmotes), <<>>)),
                  badges    |-> Or(GetProperty(tags, TagBadges), <<>>),
                  roomId    |-> Or(GetProperty(tags, TagRoomId), <<>>)])

\* parsePrivmsg: Null, or a reference to { name, color, htmlParts, badges, roomId }
parsePrivmsg(line) ==
    LET tagged   == StartsWith(line, << "@" >>)
        spaceIdx == IndexOf(line, << " " >>)
        tags     == IF tagged THEN parseTags(Slice(line, 1, spaceIdx)) ELSE EmptyMap
        rest     == IF tagged THEN SliceFrom(line, spaceIdx + 1) ELSE line
        msgIdx   == IndexOf(rest, << " ", ":" >>)
        txt      == SliceFrom(rest, msgIdx + 2)
    IN  IF msgIdx = -1 THEN Null
        ELSE Ref([name      |-> Or(GetProperty(tags, TagDisplayName), Unknown),
                  color     |-> Or(GetProperty(tags, TagColor), White),
                  htmlParts |-> buildMessageHtmlParts(txt, Or(GetProperty(tags, TagEmotes), <<>>)),
                  badges    |-> Or(GetProperty(tags, TagBadges), <<>>),
                  roomId    |-> Or(GetProperty(tags, TagRoomId), <<>>)])

-----------------------------------------------------------------------------
(* The protocol lines the server sends in this model *)

CRLF    == << "\r", "\n" >>
Ping    == << "P", "I", "N", "G" >>
PrivMsg == << " ", "P", "R", "I", "V", "M", "S", "G", " ", "#" >>
Room42  == << "4", "2" >>
Room7   == << "7" >>
KeySub  == << "s", "/", "1" >>
KeyMod  == << "m", "/", "1" >>
KeyVip  == << "v", "/", "1" >>
Eq      == << "=" >>
Semi    == << ";" >>
Routing == << " ", ":", "n" >> \o PrivMsg \o << "c" >>

Lines ==
    << \* 1: badges, room 42:   @badges=s/1,m/1;room-id=42 :n PRIVMSG #c :hi
       << "@" >> \o TagBadges \o Eq \o KeySub \o << "," >> \o KeyMod \o Semi
                 \o TagRoomId \o Eq \o Room42 \o Routing \o << " ", ":", "h", "i" >>,
       \* 2: badges, room 7:    @badges=s/1;room-id=7 :n PRIVMSG #c :yo
       << "@" >> \o TagBadges \o Eq \o KeySub \o Semi
                 \o TagRoomId \o Eq \o Room7 \o Routing \o << " ", ":", "y", "o" >>,
       \* 3: no badge:          @badges=;emotes=5:0-0;room-id=42 :n PRIVMSG #c :a&
       << "@" >> \o TagBadges \o Eq \o Semi \o TagEmotes \o Eq \o << "5", ":", "0", "-", "0" >> \o Semi
                 \o TagRoomId \o Eq \o Room42 \o Routing \o << " ", ":", "a", "&" >>,
       \* 4: no message:        @room-id=42 :n PRIVMSG #c
       << "@" >> \o TagRoomId \o Eq \o Room42 \o Routing,
       \* 5: not a PRIVMSG:     :t 001 n :hi
       << ":", "t", " ", "0", "0", "1", " ", "n", " ", ":", "h", "i" >>,
       \* 6: a ping:            PING :t
       Ping \o << " ", ":", "t" >> >>

LineIds == DOMAIN Lines

\* ev.data of a frame that carries the lines ls, each ended by CR LF
RECURSIVE FrameData(_)
FrameData(ls) == IF ls = <<>> THEN <<>> ELSE Lines[Head(ls)] \o CRLF \o FrameData(Tail(ls))

LineId(line) == CHOOSE i \in LineIds : Lines[i] = line

-----------------------------------------------------------------------------
(* Configuration, lines 37-63 *)

NaN == -1

\* clampInt for a number that is NaN or a natural number
clampInt(value, fallback, min, max) ==
    IF value = NaN THEN fallback ELSE Max({min, Min({max, value})})

clampFloat(value, fallback, min, max) ==
    IF value = NaN THEN fallback ELSE Max({min, Min({max, value})})

Proxy == << "p" >>

\* cfg after the merge and the normalisation of lines 56-63
Normalised(raw) ==
    [badgeProxy |-> raw.badgeProxy,
     max        |-> clampInt(raw.max, 30, 1, 200),
     ttl        |-> clampInt(raw.ttl, 22, 0, 3600),
     fade       |-> clampFloat(raw.fade, 2, 0, 30)]

\* the merged configurations the widget is started with in this model
RawConfigs ==
    { [badgeProxy |-> Proxy, max |-> 2, ttl |-> 0,   fade |-> NaN],
      [badgeProxy |-> <<>>,  max |-> 0, ttl |-> NaN, fade |-> NaN],
      [badgeProxy |-> <<>>,  max |-> 2, ttl |-> 1,   fade |-> 2],
      [badgeProxy |-> <<>>,  max |-> 500, ttl |-> 0, fade |-> 0] }

-----------------------------------------------------------------------------
(* The badge documents the proxy serves in this model *)

Version(id, hi, lo) == [id |-> id, image_url_2x |-> hi, image_url_1x |-> lo]

\* both sizes for s/1, only the small one for m/1
DocFull(o) ==
    [data |-> << [set_id |-> << "s" >>, versions |-> << Version(<< "1" >>, << o, "s", "2" >>, << o, "s", "1" >>) >>],
                 [set_id |-> << "m" >>, versions |-> << Version(<< "1" >>, Undefined, << o, "m", "1" >>) >>] >>]

\* s/1 without any image, m/1 with an empty one
DocBlank(o) ==
    [data |-> << [set_id |-> << "s" >>, versions |-> << Version(<< "1" >>, Undefined, Undefined) >>],
                 [set_id |-> << "m" >>, versions |-> << Version(<< "1" >>, Undefined, <<>>) >>] >>]

Docs(o) == { DocFull(o), DocBlank(o) }

GlobalSlot == << "global" >>

\* what the endpoint of a slot answers with: "g..." or "c..." image urls
SlotDocs(slot) == IF slot = GlobalSlot THEN Docs("g") ELSE Docs("c")

-----------------------------------------------------------------------------
(* RENDERING + LIFECYCLE: the widget as a state machine                     *)
(*                                                                         *)
(* A task (a websocket message, a settled fetch, a timer) runs to its end, *)
(* then the queued promise continuations run, oldest first, before the     *)
(* next task.  An addMessage invocation is a call, with its arguments      *)
(* args and its local badgeKeys (line 313); its position pc is             *)
(*   "global:fetch"  awaiting fetch(.../badges/global)          line 260   *)
(*   "global:json"   awaiting r.json() of that response         line 261   *)
(*   "channel:fetch" awaiting fetch(.../badges/channels/<id>)   line 271   *)
(*   "channel:json"  awaiting r.json() of that response         line 272   *)
(*   "resume"        ensureBadgesLoaded has returned, the rest of          *)
(*                   addMessage is queued                       line 315   *)
(*   "done"          the element is appended                               *)
(***************************************************************************)

MaxLines == 2

\* the part of the state the handlers below update
Now == [badgeCache |-> badgeCache, calls |-> calls, microtasks |-> microtasks,
        stack |-> stack, timers |-> timers, requests |-> requests]

\* computed once for every line of the model
ParsedTable == [i \in LineIds |-> parsePrivmsg(Lines[i])]

\* the arguments addMessage was called with
Args(c) == c.args

Requested(reqs, slot) == IF MapHas(reqs, slot) THEN reqs[slot] ELSE 0

\* fetch(url) is called: one more request to the endpoint of the slot
IssueFetch(st, slot) ==
    [st EXCEPT !.requests = MapSet(@, slot, Requested(@, slot) + 1)]

\* ensureBadgesLoaded returns: its promise is fulfilled and the awaiting
\* addMessage is queued as a microtask
ReturnFromEnsure(st, c) ==
    [st EXCEPT !.calls[c].pc = "resume", !.microtasks = Append(@, c)]

\* lines 267-271, up to the await
EnsureChannel(st, c, room) ==
    IF room = <<>> THEN ReturnFromEnsure(st, c)
    ELSE IF ~MapHas(st.badgeCache.channels, room)
         THEN [IssueFetch(st, room) EXCEPT !.calls[c].pc = "channel:fetch"]
         ELSE ReturnFromEnsure(st, c)

\* ensureBadgesLoaded with the global table tested in place of the flag
\* that line 258 raises before the await
ensureBadgesLoaded_TestsTable(st, c, room) ==
    IF cfg.badgeProxy = <<>> THEN ReturnFromEnsure(st, c)
    ELSE IF st.badgeCache.global = Null
         THEN [IssueFetch(st, GlobalSlot) EXCEPT !.calls[c].pc = "global:fetch"]
         ELSE EnsureChannel(st, c, room)

\* ensureBadgesLoaded without the test of line 254
ensureBadgesLoaded_NoProxyTest(st, c, room) ==
    IF ~st.badgeCache.globalLoaded
    THEN [IssueFetch(st, GlobalSlot) EXCEPT !.badgeCache.globalLoaded = TRUE,
                                            !.calls[c].pc = "global:fetch"]
    ELSE EnsureChannel(st, c, room)

\* lines 253-260, up to the first await
ensureBadgesLoaded(st, c, room) ==
    IF cfg.badgeProxy = <<>> THEN ReturnFromEnsure(st, c)
    ELSE IF ~st.badgeCache.globalLoaded
         THEN [IssueFetch(st, GlobalSlot) EXCEPT !.badgeCache.globalLoaded = TRUE,
                                                 !.calls[c].pc = "global:fetch"]
         ELSE EnsureChannel(st, c, room)

\* setTimeout of lines 338-348
NewTimers(el) ==
    LET removeAtMs == cfg.ttl * 1000
        fadeMs     == Max({0, cfg.fade * 1000})
    IN  IF cfg.ttl > 0
        THEN IF fadeMs > 0 /\ removeAtMs > fadeMs
             THEN << [el |-> el, do |-> "out", ms |-> removeAtMs - fadeMs],
                     [el |-> el, do |-> "remove", ms |-> removeAtMs] >>
             ELSE << [el |-> el, do |-> "remove", ms |-> removeAtMs] >>
        ELSE <<>>

\* the stack without the loop of line 335
KeepTight_Skipped(children) == children

\* while ($stack.children.length > cfg.max) $stack.removeChild($stack.firstChild)
RECURSIVE KeepTight(_)
KeepTight(children) ==
    IF Len(children) > cfg.max THEN KeepTight(Tail(children)) ELSE children

\* lines 319-348: the element of call c is appended
AppendElement(st, c) ==
    [st EXCEPT !.calls[c].pc = "done",
               !.stack = KeepTight(Append(@, c)),
               !.timers = @ \o NewTimers(c)]

\* addMessage, lines 305-317, up to the await or, without one, to the end
addMessage(st, line) ==
    LET c    == Len(st.calls) + 1
        a    == ParsedTable[line][1]
        keys == parseBadgesTag(a.badges)
        st1  == [st EXCEPT !.calls = Append(@, [line |-> line, args |-> a, badgeKeys |-> keys,
                                                pc |-> "start", imgs |-> <<>>])]
    IN  IF cfg.badgeProxy # <<>> /\ a.roomId # <<>> /\ keys # <<>>
        THEN ensureBadgesLoaded(st1, c, a.roomId)
        ELSE AppendElement(st1, c)

\* the lines of a frame for which the loop of lines 137-144 calls addMessage
RECURSIVE ParsedLines(_)
ParsedLines(lines) ==
    IF lines = <<>> THEN <<>>
    ELSE (IF Includes(Head(lines), PrivMsg) /\ parsePrivmsg(Head(lines)) # Null
          THEN << LineId(Head(lines)) >> ELSE <<>>) \o ParsedLines(Tail(lines))

\* the listener with ev.data taken for a single line
Dispatched_FirstLineOnly(frame) ==
    LET data == FrameData(frame)
    IN  IF StartsWith(data, Ping) THEN <<>>
        ELSE ParsedLines(SubSeq(FilterBoolean(Split(data, CRLF)), 1, 1))

Dispatched(frame) ==
    LET data == FrameData(frame)
    IN  IF StartsWith(data, Ping) THEN <<>>
        ELSE ParsedLines(FilterBoolean(Split(data, CRLF)))

RECURSIVE AddMessages(_, _)
AddMessages(st, ls) ==
    IF ls = <<>> THEN st ELSE AddMessages(addMessage(st, Head(ls)), Tail(ls))

RECURSIVE SeqsUpTo(_, _)
SeqsUpTo(S, n) ==
    IF n = 0 THEN { <<>> }
    ELSE LET shorter == SeqsUpTo(S, n - 1)
         IN  shorter \cup { Append(q, x) : q \in shorter, x \in S }

Frames == SeqsUpTo(LineIds, MaxLines) \ { <<>> }

\* computed once for every frame of the model
DispatchTable == [f \in Frames |-> Dispatched(f)]

RECURSIVE LinesIn(_)
LinesIn(frames) == IF frames = <<>> THEN 0 ELSE Len(Head(frames)) + LinesIn(Tail(frames))

Commit(st) ==
    /\ badgeCache' = st.badgeCache
    /\ calls' = st.calls
    /\ microtasks' = st.microtasks
    /\ stack' = st.stack
    /\ timers' = st.timers
    /\ requests' = st.requests

\* ws "message": lines 130-145
OnMessage(frame) ==
    /\ microtasks = <<>>
    /\ LinesIn(arrived) + Len(frame) <= MaxLines
    /\ arrived' = Append(arrived, frame)
    /\ LET st == AddMessages(Now, DispatchTable[frame]) IN Commit(st)
    /\ UNCHANGED <<cfg, faded, settled, segVars, resVars, msgVars>>

Slot(c) == IF calls[c].pc \in {"global:fetch", "global:json"} THEN GlobalSlot ELSE Args(calls[c]).roomId

\* the slot of call c receives its table and ensureBadgesLoaded runs on,
\* lines 261-276
StoreTable(c, table) ==
    IF Slot(c) = GlobalSlot
    THEN EnsureChannel([Now EXCEPT !.badgeCache.global = Ref(table)], c, Args(calls[c]).roomId)
    ELSE ReturnFromEnsure([Now EXCEPT !.badgeCache.channels = MapSet(@, Slot(c), table)], c)

\* the fetch a call awaits rejects with no try around it: the rejection
\* passes through ensureBadgesLoaded to addMessage, which ends there
FetchFails_Uncaught(c) ==
    /\ microtasks = <<>>
    /\ c \in DOMAIN calls
    /\ calls[c].pc \in {"global:fetch", "channel:fetch"}
    /\ settled' = settled \cup { [slot |-> Slot(c), ok |-> FALSE] }
    /\ calls' = [calls EXCEPT ![c].pc = "rejected"]
    /\ UNCHANGED <<cfg, badgeCache, microtasks, stack, faded, timers, arrived, requests,
                   segVars, resVars, msgVars>>

\* the fetch a call awaits rejects, or fulfils with a response that is not
\* ok: the slot gets new Map()
FetchFails(c) ==
    /\ microtasks = <<>>
    /\ c \in DOMAIN calls
    /\ calls[c].pc \in {"global:fetch", "channel:fetch"}
    /\ settled' = settled \cup { [slot |-> Slot(c), ok |-> FALSE] }
    /\ LET st == StoreTable(c, EmptyMap) IN Commit(st)
    /\ UNCHANGED <<cfg, faded, arrived, segVars, resVars, msgVars>>

\* it fulfils with an ok response: r.json() is awaited
FetchResponds(c) ==
    /\ microtasks = <<>>
    /\ c \in DOMAIN calls
    /\ calls[c].pc \in {"global:fetch", "channel:fetch"}
    /\ calls' = [calls EXCEPT ![c].pc = IF @ = "global:fetch" THEN "global:json" ELSE "channel:json"]
    /\ UNCHANGED <<cfg, badgeCache, microtasks, stack, faded, timers, arrived, requests,
                   settled, segVars, resVars, msgVars>>

\* r.json() rejects (the body is not JSON): caught, the slot gets new Map()
JsonFails(c) ==
    /\ microtasks = <<>>
    /\ c \in DOMAIN calls
    /\ calls[c].pc \in {"global:json", "channel:json"}
    /\ settled' = settled \cup { [slot |-> Slot(c), ok |-> FALSE] }
    /\ LET st == StoreTable(c, EmptyMap) IN Commit(st)
    /\ UNCHANGED <<cfg, faded, arrived, segVars, resVars, msgVars>>

\* r.json() fulfils with a badge document
JsonArrives(c, doc) ==
    /\ microtasks = <<>>
    /\ c \in DOMAIN calls
    /\ calls[c].pc \in {"global:json", "channel:json"}
    /\ doc \in SlotDocs(Slot(c))
    /\ settled' = settled \cup { [slot |-> Slot(c), ok |-> TRUE] }
    /\ LET st == StoreTable(c, buildBadgeMap(doc)) IN Commit(st)
    /\ UNCHANGED <<cfg, faded, arrived, segVars, resVars, msgVars>>

\* the rest of addMessage after the await, lines 316-348
Resume ==
    /\ microtasks # <<>>
    /\ LET c    == Head(microtasks)
           a    == Args(calls[c])
           imgs == buildBadgesFragment(calls[c].badgeKeys, a.roomId)
           st   == AppendElement([Now EXCEPT !.microtasks = Tail(@),
                                             !.calls[c].imgs = imgs], c)
       IN  Commit(st)
    /\ UNCHANGED <<cfg, faded, arrived, settled, segVars, resVars, msgVars>>

\* A timer is due before every timer set later with a delay at least as
\* long as its own
Due(i) == \A j \in 1..(i - 1) : timers[j].ms > timers[i].ms

Without(q, i) == SubSeq(q, 1, i - 1) \o SubSeq(q, i + 1, Len(q))

\* el.classList.add("out")
TimerFades(i) ==
    /\ microtasks = <<>>
    /\ i \in DOMAIN timers /\ Due(i) /\ timers[i].do = "out"
    /\ faded' = faded \cup { timers[i].el }
    /\ timers' = Without(timers, i)
    /\ UNCHANGED <<cfg, badgeCache, calls, microtasks, stack, arrived, requests, settled,
                   segVars, resVars, msgVars>>

\* el.remove()
TimerRemoves(i) ==
    /\ microtasks = <<>>
    /\ i \in DOMAIN timers /\ Due(i) /\ timers[i].do = "remove"
    /\ stack' = SelectSeq(stack, LAMBDA e : e # timers[i].el)
    /\ timers' = Without(timers, i)
    /\ UNCHANGED <<cfg, badgeCache, calls, microtasks, faded, arrived, requests, settled,
                   segVars, resVars, msgVars>>

EmptyCache == [global |-> Null, channels |-> EmptyMap, globalLoaded |-> FALSE]

SegIdle ==
    /\ text = <<>> /\ emoteDefs = <<>> /\ emotesTag = <<>> /\ parts = <<>> /\ segmented = FALSE

ResIdle ==
    /\ badgeItems = <<>> /\ badgesTag = <<>> /\ broadcasterId = <<>> /\ badgeKeys = <<>> /\ frag = <<>>
    /\ resolved = FALSE

MsgIdle ==
    /\ tagSegs = <<>> /\ rawTags = <<>> /\ lineShape = <<>> /\ rawLine = <<>>
    /\ tagMap = <<>> /\ decoded = FALSE /\ event = <<>> /\ parsed = FALSE

MainStart(raw) ==
    /\ cfg = Normalised(raw)
    /\ calls = <<>> /\ microtasks = <<>> /\ stack = <<>> /\ faded = {} /\ timers = <<>>
    /\ arrived = <<>> /\ requests = EmptyMap /\ settled = {}

Init ==
    /\ \E raw \in RawConfigs : MainStart(raw)
    /\ badgeCache = EmptyCache
    /\ SegIdle /\ ResIdle /\ MsgIdle

Next ==
    \/ \E frame \in Frames : OnMessage(frame)
    \/ \E c \in DOMAIN calls : FetchFails(c)
    \/ \E c \in DOMAIN calls : FetchResponds(c)
    \/ \E c \in DOMAIN calls : JsonFails(c)
    \/ \E c \in DOMAIN calls : \E doc \in Docs("g") \cup Docs("c") : JsonArrives(c, doc)
    \/ Resume
    \/ \E i \in DOMAIN timers : TimerFades(i)
    \/ \E i \in DOMAIN timers : TimerRemoves(i)

Spec == Init /\ [][Next]_vars

\* The event loop runs every queued continuation, and every fetch and
\* every reading of a response body settles, one way or the other.
Fairness ==
    /\ WF_vars(Resume)
    /\ \A c \in 1..MaxLines :
           /\ WF_vars(FetchFails(c) \/ FetchResponds(c))
           /\ WF_vars(JsonFails(c) \/ \E doc \in Docs("g") \cup Docs("c") : JsonArrives(c, doc))

LiveSpec == Init /\ [][Next]_vars /\ Fairness

-----------------------------------------------------------------------------
(* buildMessageHtmlParts on its own: every text and every emotes tag of    *)
(* the bounds below is segmented once.                                     *)
(*                                                                         *)
(* An emotes tag is written from its definitions: emoteDefs is a sequence  *)
(* of [id, colon, locs], a loc is [kind, s, e], and emotesTag is what the  *)
(* server would send for them.  A loc of kind "range" is written "s-e";    *)
(* the other kinds are the malformed entries: "nodash" is "s", "nostart"   *)
(* is "-e", "noend" is "s-", "badstart" is "q-e" and "badend" is "s-q".    *)
(***************************************************************************)

MaxText == 3
MaxLocs == 2

\* the texts: a plain letter, an ampersand, a less-than sign, and so on
TextChars == << "a", "&", "<" >>

TextOfLength(n) == [i \in 1..n |-> TextChars[((i - 1) % Len(TextChars)) + 1]]

Texts == { TextOfLength(n) : n \in 0..MaxText }

Offsets == 0..(MaxText - 1)

RangeLocs == { [kind |-> "range", s |-> a, e |-> b] : a \in Offsets, b \in Offsets }

BadLocs == { [kind |-> k, s |-> 1, e |-> 1] :
             k \in { "nodash", "nostart", "noend", "badstart", "badend" } }

RenderLoc(l) ==
    CASE l.kind = "range"    -> Numeral(l.s) \o << "-" >> \o Numeral(l.e)
      [] l.kind = "nodash"   -> Numeral(l.s)
      [] l.kind = "nostart"  -> << "-" >> \o Numeral(l.e)
      [] l.kind = "noend"    -> Numeral(l.s) \o << "-" >>
      [] l.kind = "badstart" -> << "q", "-" >> \o Numeral(l.e)
      [] l.kind = "badend"   -> Numeral(l.s) \o << "-", "q" >>

RECURSIVE RenderLocs(_)
RenderLocs(ls) == IF ls = <<>> THEN <<>> ELSE << RenderLoc(Head(ls)) >> \o RenderLocs(Tail(ls))

RenderDef(d) ==
    d.id \o (IF d.colon THEN << ":" >> ELSE <<>>) \o Join(RenderLocs(d.locs), << "," >>)

RECURSIVE RenderDefs(_)
RenderDefs(ds) == IF ds = <<>> THEN <<>> ELSE << RenderDef(Head(ds)) >> \o RenderDefs(Tail(ds))

RenderTag(ds) == Join(RenderDefs(ds), << "/" >>)

\* lists of locs with at most one malformed entry
LocLists(n) ==
    { ls \in SeqsUpTo(RangeLocs \cup BadLocs, n) :
        Cardinality({ i \in DOMAIN ls : ls[i] \in BadLocs }) <= 1 }

\* the definitions of one tag: one or two groups "5:..." and "7:...", or a
\* single group that lacks its id or its colon
DefLists(n) ==
    { <<>> }
    \cup { << [id |-> << "5" >>, colon |-> TRUE, locs |-> ls] >> : ls \in LocLists(n) }
    \cup UNION { { << [id |-> << "5" >>, colon |-> TRUE, locs |-> SubSeq(ls, 1, k)],
                      [id |-> << "7" >>, colon |-> TRUE, locs |-> SubSeq(ls, k + 1, Len(ls))] >> :
                   k \in 1..(Len(ls) - 1) } : ls \in LocLists(n) }
    \cup { << [id |-> i, colon |-> c, locs |-> ls] >> :
           i \in { <<>>, << "5" >> }, c \in BOOLEAN, ls \in SeqsUpTo(RangeLocs, 1) }
    \cup { << [id |-> << "5" >>, colon |-> FALSE, locs |-> <<>>], d >> :
           d \in { [id |-> << "7" >>, colon |-> TRUE, locs |-> ls] : ls \in SeqsUpTo(RangeLocs, 1) } }

SegInit ==
    /\ text \in Texts
    /\ emoteDefs \in DefLists(MaxLocs)
    /\ emotesTag = RenderTag(emoteDefs)
    /\ parts = <<>>
    /\ segmented = FALSE
    /\ MainStart(CHOOSE raw \in RawConfigs : TRUE) /\ badgeCache = EmptyCache /\ ResIdle /\ MsgIdle

Segment ==
    /\ ~segmented
    /\ parts' = buildMessageHtmlParts(text, emotesTag)
    /\ segmented' = TRUE
    /\ UNCHANGED <<mainVars, badgeCache, resVars, msgVars, text, emoteDefs, emotesTag>>

SegNext == Segment

SegSpec == SegInit /\ [][SegNext]_vars

-----------------------------------------------------------------------------
(* parseBadgesTag and buildBadgesFragment on their own: every badges tag   *)
(* and every state of the cache of the bounds below is resolved once.      *)
(*                                                                         *)
(* A badges tag is written from its items: badgeItems is a sequence of     *)
(* [key, pad], written as the key, with a blank on either side when pad    *)
(* holds, the items joined by commas.  The empty key writes an empty       *)
(* segment.                                                                *)
(***************************************************************************)

MaxKeys == 2

BadgeItems ==
    { [key |-> k, pad |-> FALSE] : k \in { KeySub, KeyMod, KeyVip, <<>> } }
    \cup { [key |-> KeyMod, pad |-> TRUE] }

RenderItem(it) == IF it.pad THEN << " " >> \o it.key \o << " " >> ELSE it.key

RECURSIVE RenderItems(_)
RenderItems(its) ==
    IF its = <<>> THEN <<>> ELSE << RenderItem(Head(its)) >> \o RenderItems(Tail(its))

RenderBadges(its) == Join(RenderItems(its), << "," >>)

\* the versions a set of a served document may hold: both sizes, the small
\* one only, an empty small one, none
VersionChoices(o, set) ==
    { Version(<< "1" >>, << o, set, "2" >>, << o, set, "1" >>),
      Version(<< "1" >>, Undefined, << o, set, "1" >>),
      Version(<< "1" >>, Undefined, <<>>),
      Version(<< "1" >>, Undefined, Undefined) }

SetChoices(o, set) ==
    { <<>> } \cup { << [set_id |-> << set >>, versions |-> << v >>] >> : v \in VersionChoices(o, set) }

HelixDocs(o) == { [data |-> a \o b] : a \in SetChoices(o, "s"), b \in SetChoices(o, "m") }

\* the states of the cache once the fetches for the global table and for
\* room 42 have or have not settled
Caches ==
    { [global |-> g, channels |-> ch, globalLoaded |-> l] :
        g \in { Null } \cup { Ref(buildBadgeMap(d)) : d \in HelixDocs("g") },
        ch \in { EmptyMap } \cup { (Room42 :> buildBadgeMap(d)) : d \in HelixDocs("c") },
        l \in BOOLEAN }

ResInit ==
    /\ badgeItems \in SeqsUpTo(BadgeItems, MaxKeys)
    /\ badgesTag = RenderBadges(badgeItems)
    /\ broadcasterId \in { Room42, <<>> }
    /\ badgeCache \in { bc \in Caches : bc.global # Null => bc.globalLoaded }
    /\ badgeKeys = <<>> /\ frag = <<>> /\ resolved = FALSE
    /\ MainStart(CHOOSE raw \in RawConfigs : raw.badgeProxy # <<>>) /\ SegIdle /\ MsgIdle

\* lines 313 and 316
Resolve ==
    /\ ~resolved
    /\ badgeKeys' = parseBadgesTag(badgesTag)
    /\ frag' = buildBadgesFragment(parseBadgesTag(badgesTag), broadcasterId)
    /\ resolved' = TRUE
    /\ UNCHANGED <<mainVars, badgeCache, segVars, msgVars, badgeItems, badgesTag, broadcasterId>>

ResNext == Resolve

ResSpec == ResInit /\ [][ResNext]_vars

-----------------------------------------------------------------------------
(* parseTags and parsePrivmsg on their own: every tag blob and every line  *)
(* of the bounds below is decoded once.                                    *)
(*                                                                         *)
(* A tag blob is written from its segments: tagSegs is a sequence of       *)
(* [k, eq, v], written "k=v" when eq holds and "k" when it does not, the   *)
(* segments joined by semicolons.  A line is written from its shape        *)
(* [tagged, routing, delim, msg]: "@" the blob and a blank when tagged,    *)
(* the routing part, then " :" and the message when delim holds.           *)
(***************************************************************************)

MaxTags == 2

Bob            == << "B", "o", "b" >>
ExampleColor   == << "#", "1", "1", "2", "2", "3", "3" >>
ExampleEmotes  == << "2", "5", ":", "0", "-", "2", "/", "3", "3", ":", "4", "-", "6" >>
ExampleBadge   == << "s", "u", "b", "s", "c", "r", "i", "b", "e", "r", "/", "6" >>
ExampleRouting == << ":", "t", "m", "i", ".", "t", "w", "i", "t", "c", "h", ".", "t", "v", " ", "P", "R", "I", "V", "M", "S", "G", " ", "#", "c", "h" >>
ExampleText    == << "L", "O", "L", " ", "y", "a", "y" >>

TagSeg(k, eq, v) == [k |-> k, eq |-> eq, v |-> v]

\* the tags of the example line of the documentation
ExampleTags ==
    << TagSeg(TagDisplayName, TRUE, Bob), TagSeg(TagColor, TRUE, ExampleColor),
       TagSeg(TagEmotes, TRUE, ExampleEmotes), TagSeg(TagBadges, TRUE, ExampleBadge),
       TagSeg(TagRoomId, TRUE, Room42) >>

\* the segments the blobs of the model are made of: the five tags the
\* parser reads, with a value, with an empty one or without "=", another
\* tag whose value holds a "=", an empty segment, and the tag __proto__
TagPool ==
    { TagSeg(TagDisplayName, TRUE, Bob), TagSeg(TagDisplayName, TRUE, <<>>),
      TagSeg(TagColor, TRUE, ExampleColor), TagSeg(TagColor, FALSE, <<>>),
      TagSeg(TagEmotes, TRUE, << "5", ":", "0", "-", "0" >>),
      TagSeg(TagBadges, TRUE, KeySub),
      TagSeg(TagRoomId, TRUE, Room42),
      TagSeg(<< "k" >>, TRUE, << "a", "=", "b" >>), TagSeg(<< "k" >>, FALSE, <<>>),
      TagSeg(<<>>, FALSE, <<>>),
      TagSeg(ProtoKey, TRUE, << "x" >>) }

TagLists(n) == SeqsUpTo(TagPool, n) \cup { ExampleTags }

RenderSeg(sg) == sg.k \o (IF sg.eq THEN Eq \o sg.v ELSE <<>>)

RECURSIVE RenderSegs(_)
RenderSegs(sgs) == IF sgs = <<>> THEN <<>> ELSE << RenderSeg(Head(sgs)) >> \o RenderSegs(Tail(sgs))

RenderTags(sgs) == Join(RenderSegs(sgs), Semi)

\* the routing parts hold no " :"; the messages may
LineShapes ==
    { [tagged |-> t, routing |-> r, delim |-> d, msg |-> m] :
        t \in BOOLEAN,
        r \in { ExampleRouting, << "P", "R", "I", "V", "M", "S", "G" >>, <<>> },
        d \in BOOLEAN,
        m \in { ExampleText, <<>>, << "a", " ", ":", "b" >>, << "a", "&" >> } }

RenderLine(sh, blob) ==
    (IF sh.tagged THEN << "@" >> \o blob \o << " " >> ELSE <<>>)
    \o sh.routing
    \o (IF sh.delim THEN << " ", ":" >> \o sh.msg ELSE <<>>)

ParseInit ==
    /\ tagSegs \in TagLists(MaxTags)
    /\ rawTags = RenderTags(tagSegs)
    /\ lineShape \in { sh \in LineShapes : ~sh.delim => sh.msg = <<>> }
    /\ rawLine = RenderLine(lineShape, rawTags)
    /\ tagMap = <<>> /\ decoded = FALSE /\ event = <<>> /\ parsed = FALSE
    /\ MainStart(CHOOSE raw \in RawConfigs : TRUE) /\ badgeCache = EmptyCache
    /\ SegIdle /\ ResIdle

\* line 167
DecodeTags ==
    /\ ~decoded
    /\ tagMap' = parseTags(rawTags)
    /\ decoded' = TRUE
    /\ UNCHANGED <<mainVars, badgeCache, segVars, resVars,
                   tagSegs, rawTags, lineShape, rawLine, event, parsed>>

\* line 140
ParseLine ==
    /\ ~parsed
    /\ event' = parsePrivmsg(rawLine)
    /\ parsed' = TRUE
    /\ UNCHANGED <<mainVars, badgeCache, segVars, resVars,
                   tagSegs, rawTags, lineShape, rawLine, tagMap, decoded>>

ParseNext == DecodeTags \/ ParseLine

ParseSpec == ParseInit /\ [][ParseNext]_vars

-----------------------------------------------------------------------------
(* What the claims speak of *)

RoomIds == { Room42, Room7 }

Slots == { GlobalSlot } \cup RoomIds

\* the slot of a cache holds a table
Populated(bc, slot) ==
    IF slot = GlobalSlot THEN bc.global # Null ELSE MapHas(bc.channels, slot)

Table(bc, slot) == IF slot = GlobalSlot THEN bc.global[1] ELSE bc.channels[slot]

Failed(slot) == [slot |-> slot, ok |-> FALSE] \in settled

\* call c asks for the badges of the room: line 314 holds for it
Needs(c, room) ==
    /\ cfg.badgeProxy # <<>>
    /\ Args(calls[c]).roomId = room
    /\ parseBadgesTag(Args(calls[c]).badges) # <<>>

\* C1: over the whole run one fetch, and only one, goes to the channel
\* endpoint of a room that calls of addMessage ask for: never more than one
\* is issued, and one has been issued once those calls are done.
C1_OneChannelFetch ==
    \A room \in RoomIds :
        (\E c \in DOMAIN calls : Needs(c, room)) =>
            /\ Requested(requests, room) <= 1
            /\ (\A c \in DOMAIN calls : Needs(c, room) => calls[c].pc = "done")
                   => Requested(requests, room) = 1

\* C2: the global endpoint is requested at most once.
C2_GlobalFetchedOnce == Requested(requests, GlobalSlot) <= 1

\* two calls, both asking for badges, both rendered; the one global fetch
\* failed
C2_Witness ==
    /\ Len(calls) = 2
    /\ \A c \in DOMAIN calls : Needs(c, Args(calls[c]).roomId) /\ calls[c].pc = "done"
    /\ Failed(GlobalSlot)
    /\ Requested(requests, GlobalSlot) = 1

\* C3: once a fetch for a slot has failed, no step issues another fetch for
\* the slot, and the slot's table answers no key after any step.
C3_FailureNeverRetried ==
    [][ \A slot \in Slots :
            Failed(slot) =>
                /\ Requested(requests', slot) = Requested(requests, slot)
                /\ Populated(badgeCache', slot)
                /\ Table(badgeCache', slot) = EmptyMap ]_vars

\* C4: a slot that holds a table holds the same table after every step.
C4_WriteOnce ==
    [][ \A slot \in Slots :
            Populated(badgeCache, slot) =>
                /\ Populated(badgeCache', slot)
                /\ Table(badgeCache', slot) = Table(badgeCache, slot) ]_vars

\* C5: a slot whose fetch failed holds an empty table, so that every key
\* of that scope is not found, in every state from the failure on; the
\* call that awaited the fetch goes on to render its message.
C5_FailureCachedEmpty ==
    \A slot \in Slots :
        Failed(slot) =>
            /\ Populated(badgeCache, slot)
            /\ \A k \in { KeySub, KeyMod, KeyVip } : MapGet(Table(badgeCache, slot), k) = Undefined

\* the lines of the model that are chat messages, and the one that is a ping
ChatLines == { 1, 2, 3 }
PingLines == { 6 }

RECURSIVE ExpectedCalls(_)
ExpectedCalls(frames) ==
    IF frames = <<>> THEN <<>>
    ELSE (IF Head(frames)[1] \in PingLines THEN <<>>
          ELSE SelectSeq(Head(frames), LAMBDA i : i \in ChatLines))
         \o ExpectedCalls(Tail(frames))

\* C6: addMessage has been called once for every chat message received, in
\* the order of arrival, and for nothing else.  (A frame that starts with
\* PING is answered and none of its lines is read.)
C6_OneEventPerLine ==
    [c \in DOMAIN calls |-> calls[c].line] = ExpectedCalls(arrived)

\* one frame with two different chat messages, both handed over
C6_Witness ==
    /\ Len(arrived) = 1
    /\ Len(calls) = 2
    /\ calls[1].line # calls[2].line

-----------------------------------------------------------------------------

RECURSIVE FlatLocs(_)
FlatLocs(ds) ==
    IF ds = <<>> THEN <<>>
    ELSE [i \in 1..Len(Head(ds).locs) |->
             [id |-> Head(ds).id, colon |-> Head(ds).colon, loc |-> Head(ds).locs[i]]]
         \o FlatLocs(Tail(ds))

\* every definition has an id, a colon and ranges, every range is "s-e"
\* with s <= e inside the text, and no two ranges share a position
WellFormed(ds, txt) ==
    LET fl == FlatLocs(ds)
    IN  /\ \A d \in DOMAIN ds : ds[d].id # <<>> /\ ds[d].colon /\ ds[d].locs # <<>>
        /\ \A i \in DOMAIN fl :
               /\ fl[i].loc.kind = "range"
               /\ fl[i].loc.s <= fl[i].loc.e
               /\ fl[i].loc.e < Len(txt)
        /\ \A i, j \in DOMAIN fl :
               i < j => fl[i].loc.e < fl[j].loc.s \/ fl[j].loc.e < fl[i].loc.s

Covered(ds) ==
    { p \in Offsets : \E i \in DOMAIN FlatLocs(ds) :
                          FlatLocs(ds)[i].loc.s <= p /\ p <= FlatLocs(ds)[i].loc.e }

\* the characters of txt from offset p on that no emote covers
RECURSIVE Uncovered(_, _, _)
Uncovered(txt, ds, p) ==
    IF p >= Len(txt) THEN <<>>
    ELSE (IF p \in Covered(ds) THEN <<>> ELSE << txt[p + 1] >>) \o Uncovered(txt, ds, p + 1)

\* the HTML entity of a character
Entity(c) ==
    CASE c = "&"  -> << "&", "a", "m", "p", ";" >>
      [] c = "<"  -> << "&", "l", "t", ";" >>
      [] c = ">"  -> << "&", "g", "t", ";" >>
      [] c = "\"" -> << "&", "q", "u", "o", "t", ";" >>
      [] c = "'"  -> << "&", "#", "0", "3", "9", ";" >>
      [] OTHER    -> << c >>

RECURSIVE Entities(_)
Entities(str) == IF str = <<>> THEN <<>> ELSE Entity(Head(str)) \o Entities(Tail(str))

RECURSIVE Literals(_)
Literals(ps) ==
    IF ps = <<>> THEN <<>>
    ELSE (IF Head(ps).kind = "text" THEN Head(ps).html ELSE <<>>) \o Literals(Tail(ps))

\* the segments follow one another from offset 0 to the end of the text
Contiguous(ps, txt) ==
    /\ ps # <<>>
    /\ ps[1].from = 0
    /\ ps[Len(ps)].to = Len(txt)
    /\ \A i \in DOMAIN ps : ps[i].from <= ps[i].to
    /\ \A i \in 1..(Len(ps) - 1) : ps[i].to = ps[i + 1].from

\* C7 as stated: for a well-formed tag the segments are contiguous and the
\* literal segments, concatenated, are the text without the emote spans.
C7_CoverageAsStated ==
    (segmented /\ WellFormed(emoteDefs, text)) =>
        /\ Contiguous(parts, text)
        /\ Literals(parts) = Uncovered(text, emoteDefs, 0)

\* C7: for a well-formed tag the segments are contiguous and the literal
\* segments, concatenated, are the text without the emote spans with each
\* of & < > " ' written as its HTML entity.
C7_Coverage ==
    (segmented /\ WellFormed(emoteDefs, text)) =>
        /\ Contiguous(parts, text)
        /\ Literals(parts) = Entities(Uncovered(text, emoteDefs, 0))

\* two ranges given out of order, with an escaped literal between them
C7_Witness ==
    /\ segmented /\ WellFormed(emoteDefs, text)
    /\ \E i \in DOMAIN FlatLocs(emoteDefs) :
           i > 1 /\ FlatLocs(emoteDefs)[i].loc.e < FlatLocs(emoteDefs)[i - 1].loc.s
    /\ Len(parts) = 3
    /\ parts[2].kind = "text" /\ parts[2].html = Entity("&")

\* an entry the claim calls parsable
Parsable(x) == x.id # <<>> /\ x.colon /\ x.loc.kind = "range"

ImgParts(ps) == SelectSeq(ps, LAMBDA q : q.kind = "img")

\* C10: the emote segments are those of the entries that have an id, a
\* colon and numeric start and end offsets, one for each; an entry that
\* lacks one of them gives none.
C10_BadEntriesSkipped ==
    segmented =>
        LET good == SelectSeq(FlatLocs(emoteDefs), Parsable)
            imgs == ImgParts(parts)
        IN  /\ Len(imgs) = Len(good)
            /\ { << imgs[i].html, imgs[i].from, imgs[i].to >> : i \in DOMAIN imgs }
               = { << good[i].id, good[i].loc.s, good[i].loc.e + 1 >> : i \in DOMAIN good }

-----------------------------------------------------------------------------

\* the keys a badges tag is written from
RECURSIVE ItemKeys(_)
ItemKeys(its) ==
    IF its = <<>> THEN <<>>
    ELSE (IF Head(its).key = <<>> THEN <<>> ELSE << Head(its).key >>) \o ItemKeys(Tail(its))

ChannelTable ==
    IF broadcasterId # <<>> /\ MapHas(badgeCache.channels, broadcasterId)
    THEN badgeCache.channels[broadcasterId] ELSE EmptyMap

GlobalTable == IF badgeCache.global = Null THEN EmptyMap ELSE badgeCache.global[1]

\* C8: a key held by both tables resolves to the channel table's value:
\* nothing else is returned for it, and that value is returned when it is
\* a reference.
C8_ChannelPrecedence ==
    resolved =>
        \A i \in DOMAIN badgeKeys :
            LET k == badgeKeys[i] IN
            (MapHas(ChannelTable, k) /\ MapHas(GlobalTable, k)) =>
                LET out == buildBadgesFragment(<< k >>, broadcasterId)
                IN  /\ out # <<>> => out = << ChannelTable[k] >>
                    /\ ~Falsy(ChannelTable[k]) => out = << ChannelTable[k] >>

Held(k) == MapHas(ChannelTable, k) \/ MapHas(GlobalTable, k)

\* the references the tables hold for a key
References(k) ==
    { v \in { MapGet(ChannelTable, k), MapGet(GlobalTable, k) } : ~Falsy(v) }

\* C9 as stated: one reference for every key held by a table, in the order
\* of the keys, and nothing for the others.
C9_ResolvedInOrderAsStated ==
    resolved =>
        LET ks == SelectSeq(ItemKeys(badgeItems), Held)
        IN  /\ Len(frag) = Len(ks)
            /\ Len(frag) <= Len(ItemKeys(badgeItems))
            /\ \A j \in DOMAIN frag :
                   frag[j] \in { MapGet(ChannelTable, ks[j]), MapGet(GlobalTable, ks[j]) }

\* C9: one reference for every key for which a table holds an image url
\* that is not empty, in the order of the keys, and nothing for the others.
C9_ResolvedInOrder ==
    resolved =>
        LET ks == SelectSeq(ItemKeys(badgeItems), LAMBDA k : References(k) # {})
        IN  /\ Len(frag) = Len(ks)
            /\ Len(frag) <= Len(ItemKeys(badgeItems))
            /\ \A j \in DOMAIN frag : frag[j] \in References(ks[j])

\* a key no table holds, dropped before a key of the channel table
C9_Witness ==
    /\ resolved
    /\ badgeKeys = << KeyVip, KeySub >>
    /\ MapHas(ChannelTable, KeySub) /\ ~MapHas(GlobalTable, KeySub)
    /\ frag = << ChannelTable[KeySub] >>

-----------------------------------------------------------------------------

\* the value the blob gives a tag: that of its last segment of that name
RECURSIVE LastValue(_, _)
LastValue(sgs, key) ==
    IF sgs = <<>> THEN Undefined
    ELSE IF sgs[Len(sgs)].k = key THEN sgs[Len(sgs)].v
    ELSE LastValue(SubSeq(sgs, 1, Len(sgs) - 1), key)

\* the tag of the line, or the default when the line has no such tag or
\* an empty one
TagOr(key, default) ==
    IF lineShape.tagged /\ LastValue(tagSegs, key) \notin { Undefined, <<>> }
    THEN LastValue(tagSegs, key) ELSE default

\* C11: a line without " :" after its tag prefix gives no event; a line
\* with it gives one event, whose text is what follows the first " :" of
\* the line without its tag prefix: its segments are those of that text,
\* and without emotes its one literal is that text, escaped.
C11_DelimiterDecides ==
    parsed =>
        /\ ~lineShape.delim => event = Null
        /\ lineShape.delim =>
               /\ event # Null /\ Len(event) = 1
               /\ event[1].htmlParts
                      = buildMessageHtmlParts(lineShape.msg, TagOr(TagEmotes, <<>>))
               /\ TagOr(TagEmotes, <<>>) = <<>> =>
                      /\ Len(event[1].htmlParts) = 1
                      /\ Literals(event[1].htmlParts) = Entities(lineShape.msg)

\* a tagged line whose routing part starts with a colon and whose message
\* holds a second " :"
C11_Witness ==
    /\ parsed /\ lineShape.tagged /\ lineShape.delim
    /\ lineShape.routing = ExampleRouting
    /\ lineShape.msg = << "a", " ", ":", "b" >>
    /\ TagOr(TagEmotes, <<>>) = <<>>
    /\ event # Null
    /\ Literals(event[1].htmlParts) = << "a", " ", ":", "b" >>

\* the example line of the documentation, and the event it gives
ExampleLine ==
    << "@", "d", "i", "s", "p", "l", "a", "y", "-", "n", "a", "m",
       "e", "=", "B", "o", "b", ";", "c", "o", "l", "o", "r", "=",
       "#", "1", "1", "2", "2", "3", "3", ";", "e", "m", "o", "t",
       "e", "s", "=", "2", "5", ":", "0", "-", "2", "/", "3", "3",
       ":", "4", "-", "6", ";", "b", "a", "d", "g", "e", "s", "=",
       "s", "u", "b", "s", "c", "r", "i", "b", "e", "r", "/", "6",
       ";", "r", "o", "o", "m", "-", "i", "d", "=", "4", "2", " ",
       ":", "t", "m", "i", ".", "t", "w", "i", "t", "c", "h", ".",
       "t", "v", " ", "P", "R", "I", "V", "M", "S", "G", " ", "#",
       "c", "h", " ", ":", "L", "O", "L", " ", "y", "a", "y" >>

ExampleEvent ==
    [name      |-> Bob,
     color     |-> ExampleColor,
     htmlParts |-> << [kind |-> "img",  html |-> << "2", "5" >>, from |-> 0, to |-> 3],
                      [kind |-> "text", html |-> << " " >>,      from |-> 3, to |-> 4],
                      [kind |-> "img",  html |-> << "3", "3" >>, from |-> 4, to |-> 7] >>,
     badges    |-> ExampleBadge,
     roomId    |-> Room42]

\* C12: the fields of an event are the tags of its line, or their
\* defaults: name the display-name tag or "Unknown", color the color tag or
\* "#ffffff", emotes, badges and roomId the tags of these names or the
\* empty string; the example line gives the example event, with the one
\* badge key subscriber/6.  (A tag that is present and empty gives the
\* default, as an absent one does.)
C12_FieldsWithDefaults ==
    (parsed /\ event # Null) =>
        /\ event[1].name = TagOr(TagDisplayName, Unknown)
        /\ event[1].color = TagOr(TagColor, White)
        /\ event[1].htmlParts = buildMessageHtmlParts(lineShape.msg, TagOr(TagEmotes, <<>>))
        /\ event[1].badges = TagOr(TagBadges, <<>>)
        /\ event[1].roomId = TagOr(TagRoomId, <<>>)
        /\ rawLine = ExampleLine =>
               /\ event[1] = ExampleEvent
               /\ parseBadgesTag(event[1].badges) = << ExampleBadge >>

\* the example line has been parsed
C12_Witness ==
    /\ parsed /\ rawLine = ExampleLine
    /\ tagSegs = ExampleTags
    /\ event = Ref(ExampleEvent)

\* C13: looking up the name of any segment of the blob in the decoded tags
\* gives the value of the last segment of that name, the value of a
\* segment being what follows its first "=", or the empty string without
\* one.
C13_TagRoundTrip ==
    decoded =>
        \A i \in DOMAIN tagSegs :
            GetProperty(tagMap, tagSegs[i].k) = LastValue(tagSegs, tagSegs[i].k)

-----------------------------------------------------------------------------

\* the tag gives no entry with an id, a colon and numeric offsets
NoValidRange(ds) == SelectSeq(FlatLocs(ds), Parsable) = <<>>

\* C14: an empty emotes tag, and a tag that gives no valid range, yield
\* one literal segment, and it is the text.
C14_SingleLiteral ==
    (segmented /\ (emotesTag = <<>> \/ NoValidRange(emoteDefs))) =>
        /\ Len(parts) = 1
        /\ parts[1].kind = "text"
        /\ parts[1].html = text

-----------------------------------------------------------------------------

\* C15: without a badge proxy no fetch has been issued and the cache is as
\* it was created, and neither a call of ensureBadgesLoaded, for any room
\* or none, nor a call of addMessage, for any chat message, issues a fetch
\* or changes the cache.
C15_NoProxyNoFetch ==
    cfg.badgeProxy = <<>> =>
        /\ requests = EmptyMap
        /\ badgeCache = EmptyCache
        /\ \A c \in DOMAIN calls : \A room \in RoomIds \cup { <<>> } :
               /\ ensureBadgesLoaded(Now, c, room).requests = requests
               /\ ensureBadgesLoaded(Now, c, room).badgeCache = badgeCache
        /\ \A l \in ChatLines :
               /\ addMessage(Now, l).requests = requests
               /\ addMessage(Now, l).badgeCache = badgeCache

\* no proxy, and two messages with badge keys and a room are shown
C15_Witness ==
    /\ cfg.badgeProxy = <<>>
    /\ Len(calls) = 2
    /\ \A c \in DOMAIN calls :
           /\ calls[c].pc = "done"
           /\ Args(calls[c]).roomId # <<>>
           /\ parseBadgesTag(Args(calls[c]).badges) # <<>>
    /\ requests = EmptyMap

\* C16: the elements are appended in the order of the calls, which is
\* the order of arrival of their lines (C6): when the element of a call is
\* appended, those of all earlier calls are.
C16_ArrivalOrder ==
    \A a, b \in DOMAIN calls :
        (a < b /\ calls[b].pc = "done") => calls[a].pc = "done"

\* C17: when the rest of addMessage is about to resolve the badge keys of
\* a call, the global slot and the slot of the call's room hold a table.
C17_TablesReady ==
    microtasks # <<>> =>
        /\ Populated(badgeCache, GlobalSlot)
        /\ Populated(badgeCache, Args(calls[Head(microtasks)]).roomId)

-----------------------------------------------------------------------------

TextParts(ps) == SelectSeq(ps, LAMBDA q : q.kind = "text")

\* the positions of the text a literal segment was cut from
Positions(q) == q.from..(q.to - 1)

RECURSIVE TotalPositions(_)
TotalPositions(ps) ==
    IF ps = <<>> THEN 0 ELSE (Head(ps).to - Head(ps).from) + TotalPositions(Tail(ps))

NoDuplication(ps, txt) ==
    LET lits == TextParts(ps)
    IN  /\ \A i, j \in DOMAIN lits : i # j => Positions(lits[i]) \cap Positions(lits[j]) = {}
        /\ TotalPositions(lits) <= Len(txt)

\* C18 as stated: whatever ranges the tag gives, at least one, no position
\* of the text is in two literal segments, and the literal segments hold no
\* more positions than the text has.
C18_NoDuplicationAsStated ==
    (segmented /\ ImgParts(parts) # <<>>) => NoDuplication(parts, text)

\* no range ends more than one position before its start
EndsNotBeforeStarts(ps) == \A i \in DOMAIN ps : ps[i].kind = "img" => ps[i].to >= ps[i].from

\* C18: when no range of the tag ends more than one position before its
\* start, the ranges overlapping and out of order or not, no position of
\* the text is in two literal segments, and the literal segments hold no
\* more positions than the text has.
C18_NoDuplication ==
    (segmented /\ ImgParts(parts) # <<>> /\ EndsNotBeforeStarts(parts)) =>
        NoDuplication(parts, text)

\* two ranges, given out of order, that overlap, and a literal after them
C18_Witness ==
    /\ segmented /\ Len(text) = 3
    /\ Len(FlatLocs(emoteDefs)) = 2
    /\ \A i \in DOMAIN FlatLocs(emoteDefs) :
           /\ FlatLocs(emoteDefs)[i].loc.kind = "range"
           /\ FlatLocs(emoteDefs)[i].loc.s <= FlatLocs(emoteDefs)[i].loc.e
    /\ FlatLocs(emoteDefs)[1].loc.s > FlatLocs(emoteDefs)[2].loc.s
    /\ Len(parts) = 3
    /\ parts[1].kind = "img" /\ parts[2].kind = "img" /\ parts[3].kind = "text"
    /\ parts[2].from < parts[1].to
    /\ EndsNotBeforeStarts(parts)

-----------------------------------------------------------------------------

\* the calls whose element a step appends, in the order of the appends
NewlyDone ==
    SelectSeq([c \in DOMAIN calls' |-> c],
              LAMBDA c : calls'[c].pc = "done" /\ (c \in DOMAIN calls => calls[c].pc # "done"))

\* the n last elements of q, or q when it has no more
LastN(q, n) == IF Len(q) <= n THEN q ELSE SubSeq(q, Len(q) - n + 1, Len(q))

Shown(el) == \E i \in DOMAIN stack : stack[i] = el

\* C19: cfg.max is within 1..200 and the stack never holds more than
\* cfg.max elements; a step that appends elements leaves the newest
\* cfg.max of the elements shown and appended, in their order, so the
\* oldest are the ones removed; and a timer that removes an element no
\* longer shown leaves the stack as it is.
C19_StackBounded ==
    /\ [](cfg.max \in 1..200 /\ Len(stack) <= cfg.max)
    /\ [][NewlyDone # <<>> => stack' = LastN(stack \o NewlyDone, cfg.max)]_vars
    /\ [][\A i \in DOMAIN timers :
              (timers' = Without(timers, i) /\ timers[i].do = "remove" /\ ~Shown(timers[i].el))
                  => stack' = stack]_vars

\* max is 1, two messages came in one frame, the first was evicted by the
\* second, and the timers of the first have run
C19_Witness ==
    /\ cfg.max = 1 /\ cfg.ttl > 0
    /\ Len(arrived) = 1 /\ Len(calls) = 2
    /\ stack = << 2 >>
    /\ \A i \in DOMAIN timers : timers[i].el # 1
    /\ \E i \in DOMAIN timers : timers[i].el = 2 /\ timers[i].do = "remove"

-----------------------------------------------------------------------------

\* C20: every call of addMessage leads to the append of its element,
\* whatever way its fetches end.
C20_EventuallyAppended ==
    \A c \in 1..MaxLines :
        (c \in DOMAIN calls) ~> (c \in DOMAIN calls /\ calls[c].pc = "done")

\* a message is shown although the global fetch and the fetch for its room
\* both failed
C20_Witness ==
    \E c \in DOMAIN calls :
        /\ Needs(c, Args(calls[c]).roomId)
        /\ calls[c].pc = "done"
        /\ Failed(GlobalSlot) /\ Failed(Args(calls[c]).roomId)
        /\ \E i \in DOMAIN stack : stack[i] = c

====
